---- MODULE Spec2Model ----
(***************************************************************************)
(* Model of pyLBM/geometry.py: get_box, Geometry.__init__ (box parsing,    *)
(* box labels, periodicity, domain decomposition, interface override,      *)
(* element list), Geometry.add_elem and Geometry.list_of_labels.           *)
(*                                                                         *)
(* The numpy arrays of dtype 'f8' are modelled as binary floating-point    *)
(* numbers m * 2^e with a mantissa of Prec bits and round-to-nearest-even  *)
(* after every arithmetic operation, as IEEE-754 does with 53 bits.        *)
(***************************************************************************)
EXTENDS Integers, Sequences, FiniteSets, TLC

VARIABLES
    dico,          \* the caller's dictionary (its immutable parts)
    dico_label,    \* the caller's list object stored under dico['box']['label']
    label0,        \* history: dico_label as the caller wrote it
    comm,          \* the cartesian layout the communicator gives this process
    pc,            \* the next step of Geometry.__init__, "done" or "raised"
    err,           \* the exception that ended the construction, "" if none
    log,           \* the messages given to log.error
    dim,           \* self.dim
    globalbounds,  \* self.globalbounds
    bounds,        \* self.bounds
    label_ref,     \* which list object self.box_label refers to
    own_label,     \* the list [dummylab]*2*dim created by __init__
    period,        \* the local variable period
    interface,     \* self.interface
    list_elem,     \* self.list_elem
    init_label,    \* history: self.box_label as first assigned by this construction
    added,         \* history: the arguments of add_elem, in call order
    built,         \* history: one record per completed construction
    nbuilt,        \* number of constructions started
    sp_box,        \* decomposition of one axis: the global interval
    sp_n,          \* decomposition of one axis: the split factor
    sp_tiles       \* decomposition of one axis: the bounds each process computed

vars == << dico, dico_label, label0, comm, pc, err, log, dim, globalbounds, bounds,
           label_ref, own_label, period, interface, list_elem, init_label, added,
           built, nbuilt, sp_box, sp_n, sp_tiles >>

geomvars == << dico, dico_label, label0, comm, pc, err, log, dim, globalbounds, bounds,
               label_ref, own_label, period, interface, list_elem, init_label, added,
               built, nbuilt >>

splitvars == << sp_box, sp_n, sp_tiles >>

(***************************************************************************)
(* Bounds of the model.                                                    *)
(***************************************************************************)
Prec == 4          \* mantissa bits of the modelled floating-point format
MaxSplit == 3      \* largest split factor in the decomposition check
MaxProcs == 3      \* largest number of processes of the communicator
MaxCoord == 14     \* largest magnitude of a box bound in the decomposition check
MaxElems == 3      \* largest length of list_elem
MaxBuilds == 2     \* constructions from the same dictionary

(***************************************************************************)
(* Program constants.                                                      *)
(***************************************************************************)
DefaultLabel == -1     \* dico['box'].get('label', -1)
PeriodicLabel == -1    \* the label compared with in the periodicity loop
InterfaceLabel == -2   \* the label written on a face that became an interface

(***************************************************************************)
(* Floating point: a value is [m, e] standing for m * 2^e, normalised so   *)
(* that m is odd (or m = 0, e = 0); |m| < 2^Prec.                          *)
(***************************************************************************)
RECURSIVE Pow2(_)
Pow2(k) == IF k <= 0 THEN 1 ELSE 2 * Pow2(k - 1)

Abs(i) == IF i < 0 THEN -i ELSE i

Min(a, b) == IF a < b THEN a ELSE b

Max(a, b) == IF a < b THEN b ELSE a

RECURSIVE BitLen(_)
BitLen(a) == IF a = 0 THEN 0 ELSE 1 + BitLen(a \div 2)

RECURSIVE Norm(_, _)
Norm(m, e) ==
    IF m = 0 THEN [m |-> 0, e |-> 0]
    ELSE IF m % 2 = 0 THEN Norm(m \div 2, e + 1)
    ELSE [m |-> m, e |-> e]

\* M * 2^E rounded to Prec significant bits, ties to even.
Round(M, E) ==
    LET A == Abs(M)
        s == IF M < 0 THEN -1 ELSE 1
        k == BitLen(A) - Prec
    IN IF k <= 0 THEN Norm(M, E)
       ELSE LET q == A \div Pow2(k)
                r == A % Pow2(k)
                half == Pow2(k - 1)
                up == r > half \/ (r = half /\ q % 2 = 1)
            IN Norm(s * (IF up THEN q + 1 ELSE q), E + k)

Scaled(x, E) == x.m * Pow2(x.e - E)

f8(i) == Round(i, 0)

fadd(x, y) == LET E == Min(x.e, y.e) IN Round(Scaled(x, E) + Scaled(y, E), E)

fsub(x, y) == LET E == Min(x.e, y.e) IN Round(Scaled(x, E) - Scaled(y, E), E)

\* float * integer (the integer is converted exactly, the product is rounded)
fmul(x, n) == Round(x.m * n, x.e)

\* float / integer, correctly rounded (the last bit of the quotient is sticky)
fdiv(x, n) ==
    LET s == Prec + BitLen(n) + 1
        A == Abs(x.m) * Pow2(s)
        q == A \div n
        sticky == IF A % n = 0 THEN 0 ELSE 1
        sg == IF x.m < 0 THEN -1 ELSE 1
    IN Round(sg * (2 * q + sticky), x.e - s - 1)

fle(x, y) == LET E == Min(x.e, y.e) IN Scaled(x, E) <= Scaled(y, E)

flt(x, y) == LET E == Min(x.e, y.e) IN Scaled(x, E) < Scaled(y, E)

(***************************************************************************)
(* Domain decomposition of one axis, lines 137-140:                        *)
(*   t = (bounds[:, 1] - bounds[:, 0]) / split                             *)
(*   bounds[:, 1] = bounds[:, 0] + t*(coords + 1)                          *)
(*   bounds[:, 0] = bounds[:, 0] + t*coords                                *)
(* The result is << low, high >>.                                          *)
(***************************************************************************)
LocalBoundsRunningLow(lo, hi, n, c) ==
    LET t == fdiv(fsub(hi, lo), n)
        newlo == fadd(lo, fmul(t, c))
    IN << newlo, fadd(newlo, fmul(t, c + 1)) >>

LocalBounds(lo, hi, n, c) ==
    LET t == fdiv(fsub(hi, lo), n)
        newhi == fadd(lo, fmul(t, c + 1))
        newlo == fadd(lo, fmul(t, c))
    IN << newlo, newhi >>

(***************************************************************************)
(* Inputs.  A bound of the box dictionary is [k, v]: k = "none" when the   *)
(* key is absent, "str" when the value does not convert to numbers, "num"  *)
(* when it is the sequence v of numbers.                                   *)
(***************************************************************************)
NoBound == [k |-> "none", v |-> << >>]

StrBound == [k |-> "str", v |-> << >>]

NumBound(v) == [k |-> "num", v |-> v]

\* A geometric element: the core reads its label and its fluid/solid flag.
Elems == { [label |-> 0, isfluid |-> FALSE], [label |-> 5, isfluid |-> TRUE] }

LabelVals == { -1, 1 }

RECURSIVE ProdTo(_, _)
ProdTo(s, n) == IF n = 0 THEN 1 ELSE s[n] * ProdTo(s, n - 1)

RECURSIVE SeqsUpTo(_, _)
SeqsUpTo(S, n) ==
    IF n = 0 THEN { << >> }
    ELSE LET shorter == SeqsUpTo(S, n - 1)
         IN shorter \cup { Append(q, x) : q \in { r \in shorter : Len(r) = n - 1 }, x \in S }

(***************************************************************************)
(* get_box, lines 28-61.  The result is [ok, dim, arr, err, msgs]: with ok *)
(* the pair (dim, array of dtype f8) that is returned, otherwise the       *)
(* exception that leaves the function; msgs are the log.error messages.    *)
(***************************************************************************)
\* lines 47-56: the list `bounds` of the declared axes, z consulted only under y
BoxRows(box) ==
    << box.x >> \o (IF box.y.k # "none"
                    THEN << box.y >> \o (IF box.z.k # "none" THEN << box.z >> ELSE << >>)
                    ELSE << >>)

\* line 61: np.asarray(bounds, dtype='f8') of a list of rows
AsArrayOk(rows) ==
    /\ \A i \in 1..Len(rows) : rows[i].k = "num"
    /\ \A i \in 1..Len(rows) : Len(rows[i].v) = Len(rows[1].v)

AsArray(rows) == [i \in 1..Len(rows) |-> [j \in 1..Len(rows[i].v) |-> f8(rows[i].v[j])]]

get_box(d) ==
    IF ~d.hasbox
    THEN [ok |-> FALSE, dim |-> 0, arr |-> << >>, err |-> "UnboundLocalError",
          msgs |-> {"'box' key not found"}]
    ELSE IF d.x.k = "none"
    THEN [ok |-> FALSE, dim |-> 0, arr |-> << >>, err |-> "UnboundLocalError",
          msgs |-> {"'x' interval not found"}]
    ELSE LET rows == BoxRows(d)
         IN IF AsArrayOk(rows)
            THEN [ok |-> TRUE, dim |-> Len(rows), arr |-> AsArray(rows), err |-> "",
                  msgs |-> {}]
            ELSE [ok |-> FALSE, dim |-> 0, arr |-> << >>, err |-> "ValueError",
                  msgs |-> {}]

(***************************************************************************)
(* The box labels.  self.box_label is a reference: to the list __init__    *)
(* creates for an integer label (line 119), or to the caller's own list    *)
(* (line 123: self.box_label = dummylab, no copy).                         *)
(***************************************************************************)
BoxLabel ==
    IF label_ref = "own" THEN own_label
    ELSE IF label_ref = "dico" THEN dico_label
    ELSE << >>

\* line 119: [dummylab]*2*self.dim
Broadcast(lab, d) == [i \in 1..(2 * d) |-> lab]

\* line 129: self.box_label[2*i] == self.box_label[2*i+1] == -1, axis i from 1
PeriodicOneFace(lab, i) == lab[2 * i] = PeriodicLabel

Periodic(lab, i) == lab[2 * i - 1] = lab[2 * i] /\ lab[2 * i] = PeriodicLabel

(***************************************************************************)
(* The process topology (pyLBM/interface.py, mpi4py): split factors and    *)
(* coordinates of this process, and cartcomm.Shift(i, 1), which gives the  *)
(* neighbour in the negative and in the positive direction of axis i, or   *)
(* PROC_NULL.  A periodic axis wraps; a process is no neighbour of itself. *)
(***************************************************************************)
Topologies(d) ==
    { t \in [split : [1..d -> 1..MaxProcs], coords : [1..d -> 0..(MaxProcs - 1)]] :
        /\ \A i \in 1..d : t.coords[i] < t.split[i]
        /\ ProdTo(t.split, d) <= MaxProcs }

HasNeighbour(itf, i, dir) ==
    /\ itf.split[i] > 1
    /\ \/ itf.period[i]
       \/ (dir = -1 /\ itf.coords[i] > 0)
       \/ (dir = 1 /\ itf.coords[i] < itf.split[i] - 1)

(***************************************************************************)
(* Lines 142-148: the interface override of the label list.                *)
(***************************************************************************)
RECURSIVE OverrideSwapped(_, _, _)
OverrideSwapped(lab, itf, i) ==
    IF i = 0 THEN lab
    ELSE LET prev == OverrideSwapped(lab, itf, i - 1)
             a == IF HasNeighbour(itf, i, -1)
                  THEN [prev EXCEPT ![2 * i] = InterfaceLabel] ELSE prev
         IN IF HasNeighbour(itf, i, 1)
            THEN [a EXCEPT ![2 * i - 1] = InterfaceLabel] ELSE a

RECURSIVE OverrideAlways(_, _, _)
OverrideAlways(lab, itf, i) ==
    IF i = 0 THEN lab
    ELSE [OverrideAlways(lab, itf, i - 1) EXCEPT ![2 * i - 1] = InterfaceLabel,
                                                 ![2 * i] = InterfaceLabel]

RECURSIVE Override(_, _, _)
Override(lab, itf, i) ==
    IF i = 0 THEN lab
    ELSE LET prev == Override(lab, itf, i - 1)
             a == IF HasNeighbour(itf, i, -1)
                  THEN [prev EXCEPT ![2 * i - 1] = InterfaceLabel] ELSE prev
         IN IF HasNeighbour(itf, i, 1)
            THEN [a EXCEPT ![2 * i] = InterfaceLabel] ELSE a

(***************************************************************************)
(* The element list.                                                       *)
(***************************************************************************)
\* lines 153-156: for elemk in elem: self.list_elem.append(elemk)
RECURSIVE Reverse(_)
Reverse(s) == IF s = << >> THEN << >> ELSE Append(Reverse(Tail(s)), Head(s))

PopulateReversed(lst, elem) == lst \o Reverse(elem)

Populate(lst, elem) == lst \o elem

\* line 179: self.list_elem.append(elem)
add_elem_front(lst, e) == << e >> \o lst

add_elem(lst, e) == Append(lst, e)

\* np.unique / np.union1d give the sorted array of the distinct values
RECURSIVE SortedSeq(_)
SortedSeq(S) ==
    IF S = {} THEN << >>
    ELSE LET m == CHOOSE x \in S : \A y \in S : x <= y
         IN << m >> \o SortedSeq(S \ {m})

Range(s) == { s[i] : i \in 1..Len(s) }

\* lines 288-295
list_of_labels(lab, elems) ==
    SortedSeq(Range(lab) \cup { elems[k].label : k \in 1..Len(elems) })

(***************************************************************************)
(* The diagnostic logger (pyLBM/logs.py): log.error records the message    *)
(* and returns; the statement after it is executed.                        *)
(***************************************************************************)
LogError(l, msgs) == l \cup msgs

(***************************************************************************)
(* Geometry.__init__, lines 111-157, step by step; pc names the next step. *)
(***************************************************************************)
Raise(e) ==
    /\ pc' = "raised"
    /\ err' = e

\* line 112: self.dim, self.globalbounds = get_box(dico)
GetBox ==
    /\ pc = "get_box"
    /\ LET r == get_box(dico)
       IN /\ log' = LogError(log, r.msgs)
          /\ IF r.ok
             THEN /\ dim' = r.dim
                  /\ globalbounds' = r.arr
                  /\ pc' = "label"
                  /\ err' = err
             ELSE /\ Raise(r.err)
                  /\ UNCHANGED << dim, globalbounds >>
    /\ UNCHANGED << dico, dico_label, label0, comm, bounds, label_ref, own_label, period,
                    interface, list_elem, init_label, added, built, nbuilt, splitvars >>

\* lines 114-125: self.list_elem = [] and the initial self.box_label
ResolveLabel ==
    /\ pc = "label"
    /\ list_elem' = << >>
    /\ pc' = "period"
    /\ CASE dico.labkind = "absent" ->
              /\ own_label' = Broadcast(DefaultLabel, dim)
              /\ label_ref' = "own"
              /\ init_label' = Broadcast(DefaultLabel, dim)
              /\ log' = log
         [] dico.labkind = "int" ->
              /\ own_label' = Broadcast(dico.labint, dim)
              /\ label_ref' = "own"
              /\ init_label' = Broadcast(dico.labint, dim)
              /\ log' = log
         [] dico.labkind = "list" ->
              /\ log' = IF Len(dico_label) # 2 * dim
                        THEN LogError(log, {"label has the wrong size"}) ELSE log
              /\ label_ref' = "dico"
              /\ init_label' = dico_label
              /\ own_label' = own_label
         [] OTHER ->
              /\ log' = LogError(log, {"label must be an integer or a list"})
              /\ UNCHANGED << label_ref, own_label, init_label >>
    /\ UNCHANGED << dico, dico_label, label0, comm, err, dim, globalbounds, bounds, period,
                    interface, added, built, nbuilt, splitvars >>

\* lines 127-130: period[i] = True where both labels of axis i are -1
DerivePeriod ==
    /\ pc = "period"
    /\ IF label_ref = "none"
       THEN Raise("AttributeError") /\ period' = period
       ELSE IF Len(BoxLabel) < 2 * dim
       THEN Raise("IndexError") /\ period' = period
       ELSE /\ period' = [i \in 1..dim |-> Periodic(BoxLabel, i)]
            /\ pc' = "interface"
            /\ err' = err
    /\ UNCHANGED << dico, dico_label, label0, comm, log, dim, globalbounds, bounds,
                    label_ref, own_label, interface, list_elem, init_label, added, built,
                    nbuilt, splitvars >>

\* line 132: self.interface = Interface(self.dim, period, comm)
CreateInterface ==
    /\ pc = "interface"
    /\ interface' = [split |-> [i \in 1..dim |-> comm.split[i]],
                     coords |-> [i \in 1..dim |-> comm.coords[i]],
                     period |-> period]
    /\ pc' = "bounds"
    /\ UNCHANGED << dico, dico_label, label0, comm, err, log, dim, globalbounds, bounds,
                    label_ref, own_label, period, list_elem, init_label, added, built,
                    nbuilt, splitvars >>

\* lines 134-140: self.bounds, the part of the box owned by this process
LocalRow(row, n, c) ==
    LET lb == LocalBounds(row[1], row[2], n, c)
    IN [j \in 1..Len(row) |-> IF j = 1 THEN lb[1] ELSE IF j = 2 THEN lb[2] ELSE row[j]]

ComputeBounds ==
    /\ pc = "bounds"
    /\ IF Len(globalbounds[1]) < 2
       THEN Raise("IndexError") /\ bounds' = bounds
       ELSE /\ bounds' = [i \in 1..dim |->
                            LocalRow(globalbounds[i], interface.split[i], interface.coords[i])]
            /\ pc' = "override"
            /\ err' = err
    /\ UNCHANGED << dico, dico_label, label0, comm, log, dim, globalbounds, label_ref,
                    own_label, period, interface, list_elem, init_label, added, built,
                    nbuilt, splitvars >>

\* lines 142-148: -2 on the faces that have a neighbour, written into the list
\* object self.box_label refers to
OverrideLabels ==
    /\ pc = "override"
    /\ IF label_ref = "own"
       THEN /\ own_label' = Override(own_label, interface, dim)
            /\ dico_label' = dico_label
       ELSE /\ dico_label' = Override(dico_label, interface, dim)
            /\ own_label' = own_label
    /\ pc' = "elements"
    /\ UNCHANGED << dico, label0, comm, err, log, dim, globalbounds, bounds, label_ref,
                    period, interface, list_elem, init_label, added, built, nbuilt,
                    splitvars >>

\* lines 153-157: the elements of the dictionary, in their order
PopulateElements ==
    /\ pc = "elements"
    /\ list_elem' = Populate(list_elem, dico.elements)
    /\ built' = Append(built, [period |-> period, box_label |-> BoxLabel])
    /\ pc' = "done"
    /\ UNCHANGED << dico, dico_label, label0, comm, err, log, dim, globalbounds, bounds,
                    label_ref, own_label, period, interface, init_label, added, nbuilt,
                    splitvars >>

\* lines 170-179: Geometry.add_elem on the constructed object
AddElem ==
    /\ pc = "done"
    /\ Len(list_elem) < MaxElems
    /\ \E e \in Elems :
         /\ list_elem' = add_elem(list_elem, e)
         /\ added' = Append(added, e)
    /\ UNCHANGED << dico, dico_label, label0, comm, pc, err, log, dim, globalbounds, bounds,
                    label_ref, own_label, period, interface, init_label, built, nbuilt,
                    splitvars >>

\* The caller constructs another Geometry from the same dictionary: a new
\* object, whose attributes are not yet set.
NewGeometry ==
    /\ pc \in {"done", "raised"}
    /\ nbuilt < MaxBuilds
    /\ nbuilt' = nbuilt + 1
    /\ pc' = "get_box"
    /\ err' = ""
    /\ dim' = 0
    /\ globalbounds' = << >>
    /\ bounds' = << >>
    /\ label_ref' = "none"
    /\ own_label' = << >>
    /\ period' = << >>
    /\ interface' = [split |-> << >>, coords |-> << >>, period |-> << >>]
    /\ list_elem' = << >>
    /\ init_label' = << >>
    /\ added' = << >>
    /\ UNCHANGED << dico, dico_label, label0, comm, log, built, splitvars >>

Next ==
    \/ GetBox
    \/ ResolveLabel
    \/ DerivePeriod
    \/ CreateInterface
    \/ ComputeBounds
    \/ OverrideLabels
    \/ PopulateElements
    \/ AddElem
    \/ NewGeometry

(***************************************************************************)
(* Initial states: the caller's dictionary, the communicator, and a        *)
(* Geometry object about to be constructed.                                *)
(***************************************************************************)
Fresh ==
    /\ pc = "get_box"
    /\ err = ""
    /\ log = {}
    /\ dim = 0
    /\ globalbounds = << >>
    /\ bounds = << >>
    /\ label_ref = "none"
    /\ own_label = << >>
    /\ period = << >>
    /\ interface = [split |-> << >>, coords |-> << >>, period |-> << >>]
    /\ list_elem = << >>
    /\ init_label = << >>
    /\ added = << >>
    /\ built = << >>
    /\ nbuilt = 1

SplitIdle ==
    /\ sp_box = << 0, 1 >>
    /\ sp_n = 1
    /\ sp_tiles = [c \in 0..0 |-> << >>]

Dico(x, y, z, labkind, labint, elements) ==
    [hasbox |-> TRUE, x |-> x, y |-> y, z |-> z, labkind |-> labkind, labint |-> labint,
     elements |-> elements]

\* the dimension get_box gives a dictionary whose bounds are well formed
DimOf(d) == IF ~d.hasbox \/ d.x.k = "none" THEN 1 ELSE Len(BoxRows(d))

LabelLists(d) == UNION { [1..n -> LabelVals] : n \in (2 * d - 1)..(2 * d + 1) }

\* well-formed boxes of dimension 1, 2 and 3
GoodBoxes ==
    { Dico(NumBound(<< 0, 2 >>), NoBound, NoBound, "absent", 0, << >>),
      Dico(NumBound(<< 0, 2 >>), NumBound(<< 0, 1 >>), NoBound, "absent", 0, << >>),
      Dico(NumBound(<< 0, 2 >>), NumBound(<< 0, 1 >>), NumBound(<< 0, 1 >>), "absent", 0, << >>) }

WithLabel(d, kind, i) == [d EXCEPT !.labkind = kind, !.labint = i]

\* Spec: well-formed bounds, every kind of label, every topology
Init ==
    /\ Fresh
    /\ SplitIdle
    /\ \E b \in GoodBoxes :
         /\ \E t \in Topologies(DimOf(b)) : comm = t
         /\ \/ /\ \E k \in { << "absent", 0 >>, << "int", -1 >>, << "int", 1 >>, << "other", 0 >> } :
                    dico = WithLabel(b, k[1], k[2])
               /\ dico_label = << >>
            \/ /\ dico = WithLabel(b, "list", 0)
               /\ dico_label \in LabelLists(DimOf(b))
    /\ label0 = dico_label

Spec == Init /\ [][Next]_vars

\* SpecBox: every shape of the box bounds, a default or integer label
XBounds ==
    { NoBound, StrBound, NumBound(<< 0 >>), NumBound(<< 0, 1, 2 >>) }
        \cup { NumBound(<< a, b >>) : a \in 0..1, b \in 0..1 }

YBounds ==
    { NoBound, StrBound, NumBound(<< 0 >>) } \cup { NumBound(<< a, b >>) : a \in 0..1, b \in 0..1 }

InitBox ==
    /\ Fresh
    /\ SplitIdle
    /\ \E x \in XBounds, y \in YBounds, z \in YBounds, k \in { "absent", "int" }, hb \in BOOLEAN :
         /\ hb \/ (x = NoBound /\ y = NoBound /\ z = NoBound /\ k = "absent")
         /\ dico = [Dico(x, y, z, k, 1, << >>) EXCEPT !.hasbox = hb]
    /\ comm \in Topologies(DimOf(dico))
    /\ dico_label = << >>
    /\ label0 = dico_label

SpecBox == InitBox /\ [][Next]_vars

\* SpecElems: well-formed boxes, elements given in the dictionary and added later
InitElems ==
    /\ Fresh
    /\ SplitIdle
    /\ \E b \in GoodBoxes, els \in SeqsUpTo(Elems, 2) :
         /\ \/ dico = [WithLabel(b, "int", 1) EXCEPT !.elements = els] /\ dico_label = << >>
            \/ /\ dico = [WithLabel(b, "list", 0) EXCEPT !.elements = els]
               /\ dico_label = Broadcast(PeriodicLabel, DimOf(b))
    /\ comm \in Topologies(DimOf(dico))
    /\ label0 = dico_label

SpecElems == InitElems /\ [][Next]_vars

(***************************************************************************)
(* SpecSplit: the processes 0..n-1 of one axis each compute their bounds   *)
(* from the same global interval (lines 134-140 on every process).         *)
(***************************************************************************)
InitSplit ==
    /\ Fresh
    /\ dico = Dico(NumBound(<< 0, 2 >>), NoBound, NoBound, "absent", 0, << >>)
    /\ dico_label = << >>
    /\ label0 = << >>
    /\ comm = [split |-> << 1 >>, coords |-> << 0 >>]
    /\ sp_box \in { b \in (-MaxCoord..MaxCoord) \X (-MaxCoord..MaxCoord) : b[1] < b[2] }
    /\ sp_n \in 1..MaxSplit
    /\ sp_tiles = [c \in 0..(sp_n - 1) |-> << >>]

ProcBounds(c) ==
    /\ sp_tiles[c] = << >>
    /\ sp_tiles' = [sp_tiles EXCEPT ![c] = LocalBounds(f8(sp_box[1]), f8(sp_box[2]), sp_n, c)]
    /\ UNCHANGED << sp_box, sp_n, geomvars >>

NextSplit == \E c \in 0..(sp_n - 1) : ProcBounds(c)

SpecSplit == InitSplit /\ [][NextSplit]_vars

(***************************************************************************)
(* Properties.                                                             *)
(***************************************************************************)
Constructed == pc \in {"elements", "done"}

\* axis and direction of face k of the label list (k from 1)
AxisOf(k) == (k + 1) \div 2

DirOf(k) == IF k % 2 = 1 THEN -1 ELSE 1

AllTiles == \A c \in 0..(sp_n - 1) : sp_tiles[c] # << >>

GlobalLow == f8(sp_box[1])

GlobalHigh == f8(sp_box[2])

\* |x - y| <= 8 * 2^-Prec * max(|low|, |high|) of the global interval
WithinRounding(x, y) ==
    LET E == Min(Min(x.e, y.e), 0)
    IN Abs(Scaled(x, E) - Scaled(y, E)) * Pow2(Prec)
         <= 8 * Max(Abs(sp_box[1]), Abs(sp_box[2])) * Pow2(-E)

C2_BadLabelLengthRejected ==
    dico.labkind = "list" =>
        /\ Len(label0) # 2 * DimOf(dico) => (pc # "done" /\ bounds = << >>)
        /\ (Len(label0) = 2 * DimOf(dico) /\ nbuilt = 1 /\ pc \notin {"get_box", "label"}) =>
              init_label = label0

\* C3: an axis whose two initial labels are -1 keeps -1 on both faces when its
\* split factor is 1, and with a split factor >= 2 has -2 on exactly the faces
\* that have a neighbour in that direction.
C3_PeriodicAxisLabels ==
    Constructed =>
        \A d \in 1..dim :
            (Len(init_label) >= 2 * dim /\ init_label[2 * d - 1] = PeriodicLabel
                                        /\ init_label[2 * d] = PeriodicLabel) =>
                IF interface.split[d] = 1
                THEN BoxLabel[2 * d - 1] = PeriodicLabel /\ BoxLabel[2 * d] = PeriodicLabel
                ELSE /\ (BoxLabel[2 * d - 1] = InterfaceLabel) <=> HasNeighbour(interface, d, -1)
                     /\ (BoxLabel[2 * d] = InterfaceLabel) <=> HasNeighbour(interface, d, 1)

C3_Witness ==
    /\ pc = "done"
    /\ dim = 2
    /\ init_label = << -1, -1, -1, -1 >>
    /\ interface.split = << 2, 1 >>
    /\ BoxLabel = << -2, -2, -1, -1 >>

\* C4: after the override every face of axis d that has a neighbour in its
\* direction carries -2 and every other entry of box_label is the initial one.
C4_InterfaceOverride ==
    Constructed =>
        /\ Len(BoxLabel) = Len(init_label)
        /\ \A k \in 1..Len(BoxLabel) :
             BoxLabel[k] = IF k <= 2 * dim /\ HasNeighbour(interface, AxisOf(k), DirOf(k))
                           THEN InterfaceLabel
                           ELSE init_label[k]

C4_Witness ==
    /\ pc = "done"
    /\ dim = 2
    /\ init_label = << 1, 1, 1, 1 >>
    /\ interface.split = << 2, 1 >>
    /\ interface.coords = << 0, 0 >>
    /\ BoxLabel = << 1, -2, 1, 1 >>

\* C5: the element list is the elements of the dictionary followed by the
\* arguments of add_elem in call order, whichever way they were split between
\* the two, and list_of_labels() is the sorted union of the face labels and the
\* labels of these elements.
C5_ElementOrder ==
    pc = "done" =>
        /\ list_elem = dico.elements \o added
        /\ list_of_labels(BoxLabel, list_elem)
             = SortedSeq(Range(BoxLabel)
                           \cup { (dico.elements \o added)[k].label :
                                    k \in 1..(Len(dico.elements) + Len(added)) })

C5_Witness ==
    /\ pc = "done"
    /\ Len(dico.elements) = 1
    /\ Len(added) = 1
    /\ added[1] # dico.elements[1]
    /\ list_elem = << dico.elements[1], added[1] >>
    /\ list_of_labels(BoxLabel, list_elem) = << -2, -1, 0, 5 >>

\* C6 as stated: no Geometry is produced when 'x' is absent or a bound that
\* get_box reads is not a pair of two numbers with low < high, so that every
\* constructed Geometry has low < high in globalbounds on every axis.
C6_BoundsValidated ==
    pc = "done" =>
        /\ dico.hasbox /\ dico.x.k # "none"
        /\ \A i \in 1..Len(BoxRows(dico)) :
             LET b == BoxRows(dico)[i]
             IN b.k = "num" /\ Len(b.v) = 2 /\ b.v[1] < b.v[2]
        /\ \A i \in 1..dim :
             Len(globalbounds[i]) = 2 /\ flt(globalbounds[i][1], globalbounds[i][2])

\* C7 as stated: a box that declares z without y is rejected: no Geometry is
\* constructed from it.
C7_ZWithoutYRejected ==
    (pc = "done" /\ dico.x.k = "num" /\ Len(dico.x.v) = 2 /\ dico.x.v[1] < dico.x.v[2]) =>
        ~(dico.y.k = "none" /\ dico.z.k # "none")

\* C8: a call of add_elem appends its argument to list_elem, keeps the earlier
\* elements in place and leaves dim, the global and local bounds and box_label
\* unchanged.
C8_AddElemAppends ==
    [][(pc = "done" /\ pc' = "done") =>
          /\ Len(added') = Len(added) + 1
          /\ list_elem' = Append(list_elem, added'[Len(added')])
          /\ \A k \in 1..Len(list_elem) : list_elem'[k] = list_elem[k]
          /\ dim' = dim
          /\ globalbounds' = globalbounds
          /\ bounds' = bounds
          /\ BoxLabel' = BoxLabel]_vars

C8_Witness ==
    /\ pc = "done"
    /\ Len(dico.elements) = 1
    /\ Len(added) = 2
    /\ added[1] # added[2]
    /\ list_elem = dico.elements \o added

\* C9: the periodicity vector given to the topology is derived from the labels
\* as first assigned (axis d periodic iff both are -1), and no override has
\* written into box_label before the derivation and the topology query.
C9_PeriodBeforeOverride ==
    /\ pc \in {"period", "interface", "bounds", "override"} => BoxLabel = init_label
    /\ pc \in {"interface", "bounds", "override", "elements", "done"} =>
         \A d \in 1..dim :
            period[d] <=> (init_label[2 * d - 1] = PeriodicLabel /\ init_label[2 * d] = PeriodicLabel)
    /\ pc \in {"bounds", "override", "elements", "done"} => interface.period = period

C9_Witness ==
    /\ pc = "done"
    /\ dim = 2
    /\ init_label = << -1, -1, -1, 1 >>
    /\ interface.period = << TRUE, FALSE >>
    /\ BoxLabel = << -2, -2, -1, 1 >>

\* C10 as stated: construction leaves the caller's label list as the caller
\* wrote it, and every construction from the same dictionary and topology
\* yields the same periodicity vector and the same final box_label.
C10_ConstructionIsPure ==
    /\ dico_label = label0
    /\ \A i \in 1..Len(built) : \A j \in 1..Len(built) : built[i] = built[j]

====
